---- MODULE Spec2Model ----
(***************************************************************************)
(* Model of codimension/flowui/groupitems.py: the virtual canvas items     *)
(* for groups (EmptyGroup, OpenedGroupBegin, OpenedGroupEnd,               *)
(* CollapsedGroup), the GroupCornerControl and the shared GroupTitlePopup. *)
(*                                                                         *)
(* Units.  Layout values (settings, widths, base points) are whole pixels. *)
(* The code divides by 2 with true division in two places (textShift and   *)
(* GroupCornerControl.moveTo), so painter arguments, the corner control    *)
(* geometry and the popup mapping are kept in HALF-PIXEL units: the whole  *)
(* pixel p is HP(p) = 2*p, and n/2 pixels is n.                            *)
(***************************************************************************)
EXTENDS Integers, Sequences, FiniteSets

VARIABLES settings, item, phase, scene, painter, result,
          groups, popup, hovered, stack, desktop

layoutVars == <<settings, item, phase, scene, painter, result>>
hoverVars  == <<groups, popup, hovered, stack, desktop>>
vars       == <<settings, item, phase, scene, painter, result,
                groups, popup, hovered, stack, desktop>>

(***************************************************************************)
(* Bounds of the model                                                     *)
(***************************************************************************)
MaxNest == 2
MaxDepth == 2
NumGroups == 2

CellPaddings  == {1, 3}
TextPaddings  == {0, 2}
Shifts        == {0, 2}
MinWidths     == {0, 20}
PenWidths     == {1, 3}
HSpacers      == {1, 3}
TextWidths    == {0, 7, 30}
TextHeights   == {0, 9}
GroupSizes    == {0, 12}
BaseXs        == {0, 10}
BaseYs        == {0, 7}
Titles        == {"", "Setup", "Loop"}
GroupBases    == {<<0, 40>>, <<10, 90>>}
PopupHeights  == {20, 36}
ScreenHeights == {100}
Scrolls       == {<<0, 0>>, <<4, 30>>}
Origins       == {<<2, 25>>}

Kinds == {"EMPTY_GROUP", "OPENED_GROUP_BEGIN", "OPENED_GROUP_END",
          "COLLAPSED_GROUP"}

NoRect == <<0, 0, 0, 0>>

(***************************************************************************)
(* Arithmetic helpers                                                      *)
(***************************************************************************)
Max(a, b) == IF a >= b THEN a ELSE b

\* whole pixels expressed in half-pixel units
HP(n) == 2 * n

\* a wrong n / 2: floor division, expressed in half-pixel units
FloorDiv2(n) == 2 * (n \div 2)

\* Python's n / 2 (true division), expressed in half-pixel units
TrueDiv2(n) == n

\* EmptyGroup.N_BACK_RECT and CollapsedGroup.N_BACK_RECT
N_BACK_RECT == 2

(***************************************************************************)
(* canvas.settings: the values the items read                              *)
(***************************************************************************)
SettingsSpace ==
    [vCellPadding : {2}, hCellPadding : CellPaddings,
     vTextPadding : {1}, hTextPadding : TextPaddings,
     emptyGroupXShift : Shifts, emptyGroupYShift : Shifts,
     collapsedGroupXShift : Shifts, collapsedGroupYShift : Shifts,
     minWidth : MinWidths, mainLine : {5},
     selectPenWidth : PenWidths,
     openGroupHSpacer : HSpacers, openGroupVSpacer : {2}]

DefaultSettings ==
    [vCellPadding |-> 2, hCellPadding |-> 3,
     vTextPadding |-> 1, hTextPadding |-> 2,
     emptyGroupXShift |-> 2, emptyGroupYShift |-> 2,
     collapsedGroupXShift |-> 2, collapsedGroupYShift |-> 2,
     minWidth |-> 20, mainLine |-> 5,
     selectPenWidth |-> 3,
     openGroupHSpacer |-> 3, openGroupVSpacer |-> 2]

(***************************************************************************)
(* GroupCornerControl                                                      *)
(***************************************************************************)
NoControl == [x |-> 0, y |-> 0, rect |-> NoRect, width |-> 0, height |-> 0]

\* __init__: the size is fixed at construction (whole pixels)
GroupCornerControl_init(s) ==
    [x |-> 0, y |-> 0, rect |-> NoRect,
     width  |-> s.openGroupHSpacer * 2 - 1,
     height |-> s.openGroupVSpacer * 2 - 1]

\* a wrong moveTo: the rectangle's local origin is left at (0, 0)
GroupCornerControl_moveTo_NoOrigin(s, c, xPos, yPos) ==
    LET px == TrueDiv2(xPos + s.openGroupHSpacer - 1)
        py == TrueDiv2(yPos + s.openGroupVSpacer - 1)
    IN  [c EXCEPT !.x = px, !.y = py,
                  !.rect = <<0, 0, HP(c.width), HP(c.height)>>]

\* moveTo: setPos(.../2.0), then setRect(self.x(), self.y(), width, height);
\* x, y and rect are in half-pixel units
GroupCornerControl_moveTo(s, c, xPos, yPos) ==
    LET px == TrueDiv2(xPos + s.openGroupHSpacer - 1)
        py == TrueDiv2(yPos + s.openGroupVSpacer - 1)
    IN  [c EXCEPT !.x = px, !.y = py,
                  !.rect = <<px, py, HP(c.width), HP(c.height)>>]

\* paint: drawRoundedRect(self.x(), self.y(), width, height, 1, 1)
GroupCornerControl_paint(c) ==
    <<[op |-> "roundedRect", x |-> c.x, y |-> c.y,
       w |-> HP(c.width), h |-> HP(c.height)]>>

(***************************************************************************)
(* The group items.  One record type for the four kinds; the fields a kind *)
(* does not have stay 0.                                                   *)
(***************************************************************************)
NoItem ==
    [kind |-> "EMPTY_GROUP", isTerminal |-> FALSE,
     textW |-> 0, textH |-> 0,
     groupWidth |-> 0, groupHeight |-> 0, selfAndDeeperNestLevel |-> 0,
     minWidth |-> 0, minHeight |-> 0, width |-> 0, height |-> 0,
     baseX |-> 0, baseY |-> 0, rect |-> NoRect,
     topLeftControl |-> NoControl]

\* GroupItemBase.__init__ and the kinds' __init__: isTerminal is False;
\* tw, th is the bounding rectangle of the item's text, gw, gh and nest are
\* what the canvas layout fills in for an opened group
NewItem(kind, tw, th, gw, gh, nest) ==
    [NoItem EXCEPT !.kind = kind, !.textW = tw, !.textH = th,
                   !.groupWidth = gw, !.groupHeight = gh,
                   !.selfAndDeeperNestLevel = nest]

Connector(x1, y1, x2, y2) ==
    [type |-> "connector", geom |-> <<x1, y1, x2, y2>>]

SceneItem(type, rect) == [type |-> type, geom |-> rect]

\* ---- render ----------------------------------------------------------

\* a wrong render: settings.minWidth is not taken into account
EmptyGroup_render_NoMin(s, it) ==
    LET vPadding == 2 * (s.vCellPadding + s.vTextPadding) +
                    N_BACK_RECT * s.emptyGroupYShift
        hPadding == 2 * (s.hCellPadding + s.hTextPadding) +
                    N_BACK_RECT * s.emptyGroupXShift
        mh == it.textH + vPadding
        mw == it.textW + hPadding
    IN  [it EXCEPT !.minHeight = mh, !.minWidth = mw,
                   !.height = mh, !.width = mw]

EmptyGroup_render(s, it) ==
    LET vPadding == 2 * (s.vCellPadding + s.vTextPadding) +
                    N_BACK_RECT * s.emptyGroupYShift
        hPadding == 2 * (s.hCellPadding + s.hTextPadding) +
                    N_BACK_RECT * s.emptyGroupXShift
        mh == it.textH + vPadding
        mw == Max(it.textW + hPadding, s.minWidth)
    IN  [it EXCEPT !.minHeight = mh, !.minWidth = mw,
                   !.height = mh, !.width = mw]

CollapsedGroup_render(s, it) ==
    LET vPadding == 2 * (s.vCellPadding + s.vTextPadding) +
                    N_BACK_RECT * s.collapsedGroupYShift
        hPadding == 2 * (s.hCellPadding + s.hTextPadding) +
                    N_BACK_RECT * s.collapsedGroupXShift
        mh == it.textH + vPadding
        mw == Max(it.textW + hPadding, s.minWidth)
    IN  [it EXCEPT !.minHeight = mh, !.minWidth = mw,
                   !.height = mh, !.width = mw]

OpenedGroupBegin_render(s, it) ==
    LET w == s.openGroupVSpacer * 2
        h == s.openGroupVSpacer * 2
    IN  [it EXCEPT !.topLeftControl = GroupCornerControl_init(s),
                   !.width = w, !.height = h,
                   !.minWidth = w, !.minHeight = h]

OpenedGroupEnd_render(s, it) ==
    LET h == s.openGroupVSpacer * 2
    IN  [it EXCEPT !.width = 0, !.height = h,
                   !.minWidth = 0, !.minHeight = h]

\* ---- draw: the new item fields and the items added to the scene, in the
\* ---- order of the addItem calls

\* a wrong draw: the selection pen width is added once to the size
EmptyGroup_draw_PenOnce(s, it, baseX, baseY) ==
    LET connector == Connector(baseX + s.mainLine, baseY,
                               baseX + s.mainLine, baseY + it.height)
        penWidth == s.selectPenWidth - 1
        rect == <<baseX + s.hCellPadding - penWidth,
                  baseY + s.vCellPadding - penWidth,
                  it.minWidth - 2 * s.hCellPadding + penWidth,
                  it.minHeight - 2 * s.vCellPadding + penWidth>>
    IN  [item  |-> [it EXCEPT !.baseX = baseX, !.baseY = baseY,
                              !.rect = rect],
         added |-> <<connector, SceneItem("group", rect)>>]

EmptyGroup_draw(s, it, baseX, baseY) ==
    LET connector == Connector(baseX + s.mainLine, baseY,
                               baseX + s.mainLine, baseY + it.height)
        penWidth == s.selectPenWidth - 1
        rect == <<baseX + s.hCellPadding - penWidth,
                  baseY + s.vCellPadding - penWidth,
                  it.minWidth - 2 * s.hCellPadding + 2 * penWidth,
                  it.minHeight - 2 * s.vCellPadding + 2 * penWidth>>
    IN  [item  |-> [it EXCEPT !.baseX = baseX, !.baseY = baseY,
                              !.rect = rect],
         added |-> <<connector, SceneItem("group", rect)>>]

CollapsedGroup_draw(s, it, baseX, baseY) ==
    LET connector == Connector(baseX + s.mainLine, baseY,
                               baseX + s.mainLine, baseY + it.height)
        penWidth == s.selectPenWidth - 1
        rect == <<baseX + s.hCellPadding - penWidth,
                  baseY + s.vCellPadding - penWidth,
                  it.minWidth - 2 * s.hCellPadding + 2 * penWidth,
                  it.minHeight - 2 * s.vCellPadding + 2 * penWidth>>
    IN  [item  |-> [it EXCEPT !.baseX = baseX, !.baseY = baseY,
                              !.rect = rect],
         added |-> <<connector, SceneItem("group", rect)>>]

\* a wrong draw: the connector is added before the group
OpenedGroupBegin_draw_ConnectorFirst(s, it, baseX, baseY) ==
    LET penWidth == s.selectPenWidth - 1
        groupWidth == it.groupWidth + 2 * s.openGroupHSpacer
        rect == <<baseX - penWidth + s.openGroupHSpacer,
                  baseY - penWidth + s.openGroupVSpacer,
                  groupWidth + 2 * penWidth,
                  it.groupHeight + 2 * (penWidth + s.openGroupVSpacer)>>
        xPos == baseX + s.mainLine +
                it.selfAndDeeperNestLevel * (2 * s.openGroupHSpacer)
        connector == Connector(xPos, baseY,
                               xPos, baseY + s.openGroupVSpacer * 2)
        control == GroupCornerControl_moveTo(s, it.topLeftControl,
                                             baseX, baseY)
    IN  [item  |-> [it EXCEPT !.baseX = baseX, !.baseY = baseY,
                              !.rect = rect, !.topLeftControl = control],
         added |-> (IF it.isTerminal THEN <<>> ELSE <<connector>>) \o
                   <<SceneItem("group", rect)>> \o
                   <<SceneItem("control", control.rect)>>]

OpenedGroupBegin_draw(s, it, baseX, baseY) ==
    LET penWidth == s.selectPenWidth - 1
        groupWidth == it.groupWidth + 2 * s.openGroupHSpacer
        rect == <<baseX - penWidth + s.openGroupHSpacer,
                  baseY - penWidth + s.openGroupVSpacer,
                  groupWidth + 2 * penWidth,
                  it.groupHeight + 2 * (penWidth + s.openGroupVSpacer)>>
        xPos == baseX + s.mainLine +
                it.selfAndDeeperNestLevel * (2 * s.openGroupHSpacer)
        connector == Connector(xPos, baseY,
                               xPos, baseY + s.openGroupVSpacer * 2)
        control == GroupCornerControl_moveTo(s, it.topLeftControl,
                                             baseX, baseY)
    IN  [item  |-> [it EXCEPT !.baseX = baseX, !.baseY = baseY,
                              !.rect = rect, !.topLeftControl = control],
         added |-> <<SceneItem("group", rect)>> \o
                   (IF it.isTerminal THEN <<>> ELSE <<connector>>) \o
                   <<SceneItem("control", control.rect)>>]

\* a wrong draw: one spacer per nesting level instead of two
OpenedGroupEnd_draw_OneSpacer(s, it, baseX, baseY) ==
    LET xPos == baseX + s.mainLine +
                it.selfAndDeeperNestLevel * s.openGroupHSpacer
        connector == Connector(xPos, baseY,
                               xPos, baseY + s.openGroupVSpacer * 2)
    IN  [item  |-> [it EXCEPT !.baseX = baseX, !.baseY = baseY],
         added |-> IF it.isTerminal THEN <<>> ELSE <<connector>>]

OpenedGroupEnd_draw(s, it, baseX, baseY) ==
    LET xPos == baseX + s.mainLine +
                it.selfAndDeeperNestLevel * (2 * s.openGroupHSpacer)
        connector == Connector(xPos, baseY,
                               xPos, baseY + s.openGroupVSpacer * 2)
    IN  [item  |-> [it EXCEPT !.baseX = baseX, !.baseY = baseY],
         added |-> IF it.isTerminal THEN <<>> ELSE <<connector>>]

\* ---- paint: the painter's draw calls in order, in half-pixel units ------

DrawRect(x, y, w, h) ==
    [op |-> "rect", x |-> HP(x), y |-> HP(y), w |-> HP(w), h |-> HP(h)]

\* a wrong stack: the back rectangles are shifted down instead of up
BackRect_Down(it, padding, shift, size, rectNum) ==
    DrawRect(it.baseX + padding[1] + rectNum * shift[1],
             it.baseY + padding[2] + (N_BACK_RECT + rectNum) * shift[2],
             size[1], size[2])

\* the body of the loop over rectNum; padding is (hCellPadding,
\* vCellPadding), shift the kind's (XShift, YShift), size (rectWidth,
\* rectHeight)
BackRect(it, padding, shift, size, rectNum) ==
    DrawRect(it.baseX + padding[1] + rectNum * shift[1],
             it.baseY + padding[2] + (N_BACK_RECT - rectNum) * shift[2],
             size[1], size[2])

\* for rectNum in range(N_BACK_RECT, -1, -1)
RectNums == [i \in 1..(N_BACK_RECT + 1) |-> N_BACK_RECT + 1 - i]

EmptyGroup_paint(s, it) ==
    LET rectWidth  == it.minWidth - 2 * s.hCellPadding -
                      N_BACK_RECT * s.emptyGroupXShift
        rectHeight == it.minHeight - 2 * s.vCellPadding -
                      N_BACK_RECT * s.emptyGroupYShift
        rects == [i \in DOMAIN RectNums |->
                    BackRect(it, <<s.hCellPadding, s.vCellPadding>>,
                             <<s.emptyGroupXShift, s.emptyGroupYShift>>,
                             <<rectWidth, rectHeight>>, RectNums[i])]
        textWidth == it.textW + 2 * s.hTextPadding
        textShift == TrueDiv2(rectWidth - textWidth)
        text == [op |-> "text",
                 x |-> HP(it.baseX + s.hCellPadding + s.hTextPadding) +
                       textShift,
                 y |-> HP(it.baseY + s.vCellPadding + s.vTextPadding +
                          N_BACK_RECT * s.emptyGroupYShift),
                 w |-> HP(it.textW), h |-> HP(it.textH)]
    IN  rects \o <<text>>

CollapsedGroup_paint(s, it) ==
    LET rectWidth  == it.minWidth - 2 * s.hCellPadding -
                      N_BACK_RECT * s.collapsedGroupXShift
        rectHeight == it.minHeight - 2 * s.vCellPadding -
                      N_BACK_RECT * s.collapsedGroupYShift
        rects == [i \in DOMAIN RectNums |->
                    BackRect(it, <<s.hCellPadding, s.vCellPadding>>,
                             <<s.collapsedGroupXShift,
                               s.collapsedGroupYShift>>,
                             <<rectWidth, rectHeight>>, RectNums[i])]
        textWidth == it.textW + 2 * s.hTextPadding
        textShift == TrueDiv2(rectWidth - textWidth)
        text == [op |-> "text",
                 x |-> HP(it.baseX + s.hCellPadding + s.hTextPadding) +
                       textShift,
                 y |-> HP(it.baseY + s.vCellPadding + s.vTextPadding +
                          N_BACK_RECT * s.collapsedGroupYShift),
                 w |-> HP(it.textW), h |-> HP(it.textH)]
    IN  rects \o <<text>>

OpenedGroupBegin_paint(s, it) ==
    LET fullWidth  == it.groupWidth + 2 * s.openGroupHSpacer
        fullHeight == it.groupHeight + 2 * s.openGroupVSpacer
    IN  <<[op |-> "roundedRect",
           x |-> HP(it.baseX + s.openGroupHSpacer),
           y |-> HP(it.baseY + s.openGroupVSpacer),
           w |-> HP(fullWidth), h |-> HP(fullHeight)]>>

(***************************************************************************)
(* The popup and hover state at rest (used by the layout specification)    *)
(***************************************************************************)
NoPopup == [visible |-> FALSE, title |-> "", x |-> 0, y |-> 0, height |-> 0]

NoDesktop == [screenHeight |-> 0, scroll |-> <<0, 0>>, origin |-> <<0, 0>>]

(***************************************************************************)
(* Layout specification: one item is constructed, rendered, drawn on the   *)
(* scene and painted, under settings drawn from SettingsSpace.             *)
(***************************************************************************)
Init ==
    /\ settings \in SettingsSpace
    /\ item = NoItem
    /\ phase = "none"
    /\ scene = <<>>
    /\ painter = <<>>
    /\ result = <<0, 0>>
    /\ groups = <<>>
    /\ popup = NoPopup
    /\ hovered = 0
    /\ stack = <<>>
    /\ desktop = NoDesktop

\* EmptyGroup(...) / CollapsedGroup(...): the text size is the input
NewTextGroup ==
    /\ phase = "none"
    /\ \E kind \in {"EMPTY_GROUP", "COLLAPSED_GROUP"},
          tw \in TextWidths, th \in TextHeights :
           item' = NewItem(kind, tw, th, 0, 0, 0)
    /\ phase' = "created"
    /\ UNCHANGED <<settings, scene, painter, result>>
    /\ UNCHANGED hoverVars

\* OpenedGroupBegin(...), with the group size and nesting level filled in
NewOpenedGroupBegin ==
    /\ phase = "none"
    /\ \E gw \in GroupSizes, gh \in GroupSizes, nest \in 0..MaxNest :
           item' = NewItem("OPENED_GROUP_BEGIN", 0, 0, gw, gh, nest)
    /\ phase' = "created"
    /\ UNCHANGED <<settings, scene, painter, result>>
    /\ UNCHANGED hoverVars

\* OpenedGroupEnd(...), with the nesting level filled in
NewOpenedGroupEnd ==
    /\ phase = "none"
    /\ \E nest \in 0..MaxNest :
           item' = NewItem("OPENED_GROUP_END", 0, 0, 0, 0, nest)
    /\ phase' = "created"
    /\ UNCHANGED <<settings, scene, painter, result>>
    /\ UNCHANGED hoverVars

\* the canvas layout marks an item whose predecessor is terminal
SetTerminal ==
    /\ phase = "created"
    /\ ~item.isTerminal
    /\ item' = [item EXCEPT !.isTerminal = TRUE]
    /\ UNCHANGED <<settings, phase, scene, painter, result>>
    /\ UNCHANGED hoverVars

Rendered(it) ==
    /\ item' = it
    /\ result' = <<it.width, it.height>>
    /\ phase' = "rendered"
    /\ UNCHANGED <<settings, scene, painter>>
    /\ UNCHANGED hoverVars

EmptyGroupRender ==
    /\ phase = "created" /\ item.kind = "EMPTY_GROUP"
    /\ Rendered(EmptyGroup_render(settings, item))

CollapsedGroupRender ==
    /\ phase = "created" /\ item.kind = "COLLAPSED_GROUP"
    /\ Rendered(CollapsedGroup_render(settings, item))

OpenedGroupBeginRender ==
    /\ phase = "created" /\ item.kind = "OPENED_GROUP_BEGIN"
    /\ Rendered(OpenedGroupBegin_render(settings, item))

OpenedGroupEndRender ==
    /\ phase = "created" /\ item.kind = "OPENED_GROUP_END"
    /\ Rendered(OpenedGroupEnd_render(settings, item))

Drawn(d) ==
    /\ item' = d.item
    /\ scene' = scene \o d.added
    /\ phase' = "drawn"
    /\ UNCHANGED <<settings, painter, result>>
    /\ UNCHANGED hoverVars

EmptyGroupDraw ==
    /\ phase = "rendered" /\ item.kind = "EMPTY_GROUP"
    /\ \E baseX \in BaseXs, baseY \in BaseYs :
           Drawn(EmptyGroup_draw(settings, item, baseX, baseY))

CollapsedGroupDraw ==
    /\ phase = "rendered" /\ item.kind = "COLLAPSED_GROUP"
    /\ \E baseX \in BaseXs, baseY \in BaseYs :
           Drawn(CollapsedGroup_draw(settings, item, baseX, baseY))

OpenedGroupBeginDraw ==
    /\ phase = "rendered" /\ item.kind = "OPENED_GROUP_BEGIN"
    /\ \E baseX \in BaseXs, baseY \in BaseYs :
           Drawn(OpenedGroupBegin_draw(settings, item, baseX, baseY))

OpenedGroupEndDraw ==
    /\ phase = "rendered" /\ item.kind = "OPENED_GROUP_END"
    /\ \E baseX \in BaseXs, baseY \in BaseYs :
           Drawn(OpenedGroupEnd_draw(settings, item, baseX, baseY))

Painted(ops, ph) ==
    /\ painter' = ops
    /\ phase' = ph
    /\ UNCHANGED <<settings, item, scene, result>>
    /\ UNCHANGED hoverVars

EmptyGroupPaint ==
    /\ phase = "drawn" /\ item.kind = "EMPTY_GROUP"
    /\ Painted(EmptyGroup_paint(settings, item), "painted")

CollapsedGroupPaint ==
    /\ phase = "drawn" /\ item.kind = "COLLAPSED_GROUP"
    /\ Painted(CollapsedGroup_paint(settings, item), "painted")

OpenedGroupBeginPaint ==
    /\ phase = "drawn" /\ item.kind = "OPENED_GROUP_BEGIN"
    /\ Painted(OpenedGroupBegin_paint(settings, item), "painted")

\* the scene paints the corner control after the group it lies on
GroupCornerControlPaint ==
    /\ phase = "painted" /\ item.kind = "OPENED_GROUP_BEGIN"
    /\ Painted(painter \o GroupCornerControl_paint(item.topLeftControl),
               "controlPainted")

Next ==
    \/ NewTextGroup
    \/ NewOpenedGroupBegin
    \/ NewOpenedGroupEnd
    \/ SetTerminal
    \/ EmptyGroupRender
    \/ CollapsedGroupRender
    \/ OpenedGroupBeginRender
    \/ OpenedGroupEndRender
    \/ EmptyGroupDraw
    \/ CollapsedGroupDraw
    \/ OpenedGroupBeginDraw
    \/ OpenedGroupEndDraw
    \/ EmptyGroupPaint
    \/ CollapsedGroupPaint
    \/ OpenedGroupBeginPaint
    \/ GroupCornerControlPaint

Spec == Init /\ [][Next]_vars

(***************************************************************************)
(* Properties of the layout specification                                  *)
(***************************************************************************)
IsTextGroup == item.kind \in {"EMPTY_GROUP", "COLLAPSED_GROUP"}

AfterRender == phase \in {"rendered", "drawn", "painted", "controlPainted"}
AfterDraw   == phase \in {"drawn", "painted", "controlPainted"}

\* the X and Y shift settings of the item's kind
XShift == IF item.kind = "EMPTY_GROUP" THEN settings.emptyGroupXShift
          ELSE settings.collapsedGroupXShift
YShift == IF item.kind = "EMPTY_GROUP" THEN settings.emptyGroupYShift
          ELSE settings.collapsedGroupYShift

Connectors == {i \in DOMAIN scene : scene[i].type = "connector"}

\* a box <<x, y, w, h>> lies inside another one
Inside(a, b) ==
    /\ a[1] >= b[1] /\ a[2] >= b[2]
    /\ a[1] + a[3] <= b[1] + b[3]
    /\ a[2] + a[4] <= b[2] + b[4]

Box(o) == <<o.x, o.y, o.w, o.h>>
HPBox(r) == <<HP(r[1]), HP(r[2]), HP(r[3]), HP(r[4])>>

\* C1: after EmptyGroup.render / CollapsedGroup.render,
\* minHeight = th + 2*(vCellPadding + vTextPadding) + 2*YShift,
\* minWidth = max(tw + 2*(hCellPadding + hTextPadding) + 2*XShift,
\* settings.minWidth), width = minWidth, height = minHeight and the
\* returned pair is (width, height).
C1_RenderSize ==
    (AfterRender /\ IsTextGroup) =>
        LET wText == item.textW +
                     2 * (settings.hCellPadding + settings.hTextPadding) +
                     2 * XShift
        IN  /\ item.minHeight = item.textH +
                    2 * (settings.vCellPadding + settings.vTextPadding) +
                    2 * YShift
            /\ item.minWidth = (IF wText >= settings.minWidth THEN wText
                                ELSE settings.minWidth)
            /\ item.width = item.minWidth
            /\ item.height = item.minHeight
            /\ result = <<item.width, item.height>>

\* an empty group whose width is decided by settings.minWidth
C1_Witness ==
    /\ phase = "rendered" /\ item.kind = "EMPTY_GROUP"
    /\ settings.emptyGroupXShift > 0
    /\ item.textW > 0
    /\ item.minWidth = settings.minWidth
    /\ item.minWidth >
         item.textW + 2 * (settings.hCellPadding + settings.hTextPadding) +
         2 * settings.emptyGroupXShift

\* C2: paint draws exactly 3 rectangles of the same size
\* (minWidth - 2*hCellPadding - 2*XShift by
\* minHeight - 2*vCellPadding - 2*YShift) in the order rectNum = 2, 1, 0,
\* rectNum at (baseX + hCellPadding + rectNum*XShift,
\* baseY + vCellPadding + (2 - rectNum)*YShift), and each of them lies
\* inside the cell area shrunk by the cell padding.
C2_CardStack ==
    (phase = "painted" /\ IsTextGroup) =>
        LET rects == {i \in DOMAIN painter : painter[i].op = "rect"}
            w == item.minWidth - 2 * settings.hCellPadding - 2 * XShift
            h == item.minHeight - 2 * settings.vCellPadding - 2 * YShift
            area == <<item.baseX + settings.hCellPadding,
                      item.baseY + settings.vCellPadding,
                      item.minWidth - 2 * settings.hCellPadding,
                      item.minHeight - 2 * settings.vCellPadding>>
        IN  /\ rects = 1..3
            /\ \A i \in rects :
                 LET rectNum == 3 - i
                 IN  /\ Box(painter[i]) =
                          HPBox(<<item.baseX + settings.hCellPadding +
                                    rectNum * XShift,
                                  item.baseY + settings.vCellPadding +
                                    (2 - rectNum) * YShift,
                                  w, h>>)
                     /\ Inside(Box(painter[i]), HPBox(area))

\* a painted collapsed group with both shifts positive
C2_Witness ==
    /\ phase = "painted" /\ item.kind = "COLLAPSED_GROUP"
    /\ settings.collapsedGroupXShift > 0
    /\ settings.collapsedGroupYShift > 0
    /\ Len(painter) = 4
    /\ painter[3].x < painter[1].x
    /\ painter[3].y > painter[1].y

\* C3: a non-terminal OpenedGroupBegin / OpenedGroupEnd adds exactly one
\* connector, the vertical segment from (x, baseY) to
\* (x, baseY + 2*openGroupVSpacer) with
\* x = baseX + mainLine + selfAndDeeperNestLevel * 2 * openGroupHSpacer.
C3_NestedConnector ==
    (AfterDraw /\ ~item.isTerminal /\
     item.kind \in {"OPENED_GROUP_BEGIN", "OPENED_GROUP_END"}) =>
        LET x == item.baseX + settings.mainLine +
                 item.selfAndDeeperNestLevel * 2 * settings.openGroupHSpacer
        IN  /\ Cardinality(Connectors) = 1
            /\ \A i \in Connectors :
                 scene[i].geom =
                   <<x, item.baseY,
                     x, item.baseY + 2 * settings.openGroupVSpacer>>

\* a drawn, nested, non-terminal group end
C3_Witness ==
    /\ phase = "drawn" /\ item.kind = "OPENED_GROUP_END"
    /\ ~item.isTerminal
    /\ item.selfAndDeeperNestLevel = 2
    /\ item.baseX > 0
    /\ Len(scene) = 1

\* C6: for every kind of group item, draw adds no connector when isTerminal
\* is True and exactly one when it is False.
C6_TerminalNoConnector ==
    AfterDraw =>
        Cardinality(Connectors) = (IF item.isTerminal THEN 0 ELSE 1)

\* C7: OpenedGroupBegin.draw adds the group item first, then (only when not
\* terminal) the connector, and the corner control last, each exactly once.
C7_DrawOrder ==
    (AfterDraw /\ item.kind = "OPENED_GROUP_BEGIN") =>
        [i \in DOMAIN scene |-> scene[i].type] =
            (IF item.isTerminal THEN <<"group", "control">>
             ELSE <<"group", "connector", "control">>)

\* a drawn non-terminal group begin
C7_Witness ==
    /\ phase = "drawn" /\ item.kind = "OPENED_GROUP_BEGIN"
    /\ ~item.isTerminal
    /\ Len(scene) = 3

\* C8: the rectangle set by draw is, for EmptyGroup and CollapsedGroup, the
\* cell area shrunk by the cell padding and grown by
\* penWidth = selectPenWidth - 1 on every side, and it contains all that
\* paint draws; for OpenedGroupBegin it is the painted rounded rectangle
\* grown by penWidth on every side.
C8_RectCoversPaint ==
    LET pw == settings.selectPenWidth - 1
        Grown(b) == <<b[1] - pw, b[2] - pw, b[3] + 2 * pw, b[4] + 2 * pw>>
    IN  /\ (phase = "painted" /\ IsTextGroup) =>
              /\ item.rect =
                   Grown(<<item.baseX + settings.hCellPadding,
                           item.baseY + settings.vCellPadding,
                           item.minWidth - 2 * settings.hCellPadding,
                           item.minHeight - 2 * settings.vCellPadding>>)
              /\ \A i \in DOMAIN painter :
                   Inside(Box(painter[i]), HPBox(item.rect))
        /\ (phase = "painted" /\ item.kind = "OPENED_GROUP_BEGIN") =>
              /\ Box(painter[1]) =
                   HPBox(<<item.baseX + settings.openGroupHSpacer,
                           item.baseY + settings.openGroupVSpacer,
                           item.groupWidth + 2 * settings.openGroupHSpacer,
                           item.groupHeight + 2 * settings.openGroupVSpacer>>)
              /\ HPBox(item.rect) =
                   <<painter[1].x - HP(pw), painter[1].y - HP(pw),
                     painter[1].w + 2 * HP(pw), painter[1].h + 2 * HP(pw)>>

\* a painted empty group with a wide selection pen
C8_Witness ==
    /\ phase = "painted" /\ item.kind = "EMPTY_GROUP"
    /\ settings.selectPenWidth > 1
    /\ settings.emptyGroupXShift > 0
    /\ item.textW > 0
    /\ Len(painter) = 4

\* C9: the text shift (rectWidth - (textWidth + 2*hTextPadding)) / 2 is
\* never negative, and the text box lies inside the front rectangle
\* (rectNum 0, the last one drawn), horizontally centred in it.
C9_TextCentred ==
    (phase = "painted" /\ IsTextGroup) =>
        LET text  == painter[4]
            front == painter[3]
            textShift == text.x - HP(item.baseX + settings.hCellPadding +
                                     settings.hTextPadding)
        IN  /\ text.op = "text"
            /\ textShift >= 0
            /\ text.w = HP(item.textW) /\ text.h = HP(item.textH)
            /\ text.y = HP(item.baseY + settings.vCellPadding +
                           settings.vTextPadding + 2 * YShift)
            /\ Inside(Box(text), Box(front))
            /\ text.x - front.x = (front.x + front.w) - (text.x + text.w)

\* settings.minWidth decides the width and the text shift is a half pixel
C9_Witness ==
    /\ phase = "painted" /\ item.kind = "EMPTY_GROUP"
    /\ item.minWidth = settings.minWidth
    /\ item.textW > 0
    /\ Len(painter) = 4
    /\ (painter[4].x - painter[3].x) % 2 = 1

\* C10: after moveTo(xPos, yPos) the control's position is
\* ((xPos + openGroupHSpacer - 1)/2, (yPos + openGroupVSpacer - 1)/2), its
\* rectangle has that point as local origin, so its top-left in the scene
\* is (xPos + openGroupHSpacer - 1, yPos + openGroupVSpacer - 1), one pixel
\* up and left of the painted group rectangle; its size is
\* (2*openGroupHSpacer - 1) by (2*openGroupVSpacer - 1) and paint draws the
\* control where the rectangle is.
C10_CornerControl ==
    (AfterDraw /\ item.kind = "OPENED_GROUP_BEGIN") =>
        LET c == item.topLeftControl
        IN  /\ c.x = item.baseX + settings.openGroupHSpacer - 1
            /\ c.y = item.baseY + settings.openGroupVSpacer - 1
            /\ c.rect[1] = c.x /\ c.rect[2] = c.y
            /\ c.x + c.rect[1] =
                 HP(item.baseX + settings.openGroupHSpacer - 1)
            /\ c.y + c.rect[2] =
                 HP(item.baseY + settings.openGroupVSpacer - 1)
            /\ c.rect[3] = HP(2 * settings.openGroupHSpacer - 1)
            /\ c.rect[4] = HP(2 * settings.openGroupVSpacer - 1)
            /\ scene[Len(scene)].geom = c.rect
            /\ phase = "controlPainted" =>
                 /\ Box(painter[2]) = c.rect
                 /\ c.x + c.rect[1] = painter[1].x - HP(1)
                 /\ c.y + c.rect[2] = painter[1].y - HP(1)

\* a painted corner control away from the scene origin
C10_Witness ==
    /\ phase = "controlPainted"
    /\ item.baseX > 0 /\ item.baseY > 0
    /\ item.topLeftControl.x > 0
    /\ Len(painter) = 2

(***************************************************************************)
(* Hover: the corner controls of NumGroups opened groups and the one       *)
(* GroupTitlePopup instance shared by all of them.  A hover handler runs   *)
(* to completion except inside QApplication.processEvents(), where pending *)
(* hover events are delivered to nested handlers; stack holds the calls of *)
(* GroupTitlePopup.show that have not returned, innermost last.            *)
(***************************************************************************)
Ctls == 1..NumGroups

\* OpenedGroupBegin.setHighlight
OpenedGroupBegin_setHighlight(g, newValue) ==
    IF g.highlight # newValue THEN [g EXCEPT !.highlight = newValue] ELSE g

\* GroupTitlePopup.setTitleForGroup
GroupTitlePopup_setTitleForGroup(p, g) == [p EXCEPT !.title = g.title]

\* a wrong show: the popup is not moved away before it is made visible
GroupTitlePopup_show_move_Stay(p, screenHeight) == p

\* GroupTitlePopup.show, first step: self.move(0, screenHeight + 128)
GroupTitlePopup_show_move(p, screenHeight) ==
    [p EXCEPT !.x = 0, !.y = screenHeight + 128]

\* GroupTitlePopup.show, second step: QFrame.show(self); the frame gets the
\* height h its layout asks for
GroupTitlePopup_show_visible(p, h) ==
    [p EXCEPT !.visible = TRUE, !.height = h]

\* QGraphicsRectItem.boundingRect().topLeft(): the rectangle grown by half
\* the width of the item's pen, which is the default pen of width 1
BoundingRectTopLeft(c) == <<c.rect[1] - 1, c.rect[2] - 1>>

\* controlItem.mapToScene(p): the item's position is added (half pixels)
MapToScene(c, p) == <<c.x + p[1], c.y + p[2]>>

\* view.mapFromScene(p): scene to viewport, rounded to whole pixels
MapFromScene(d, p) ==
    <<(p[1] - HP(d.scroll[1]) + 1) \div 2,
      (p[2] - HP(d.scroll[2]) + 1) \div 2>>

\* view.viewport().mapToGlobal(p): viewport to screen (whole pixels)
MapToGlobal(d, p) == <<p[1] + d.origin[1], p[2] + d.origin[2]>>

\* the control's top-left on the screen
GlobalTopLeft(d, c) ==
    MapToGlobal(d, MapFromScene(d, MapToScene(c, BoundingRectTopLeft(c))))

\* GroupTitlePopup.resize: self.move(pos.x(), pos.y() - self.height() - 2)
GroupTitlePopup_resize(p, d, c) ==
    LET pos == GlobalTopLeft(d, c)
    IN  [p EXCEPT !.x = pos[1], !.y = pos[2] - p.height - 2]

\* QFrame.hide
GroupTitlePopup_hide(p) == [p EXCEPT !.visible = FALSE]

\* GroupCornerControl.hoverEnterEvent up to the call of show
HoverEnter(gs, p, c) ==
    [groups |-> [gs EXCEPT ![c] = OpenedGroupBegin_setHighlight(gs[c], TRUE)],
     popup  |-> IF gs[c].title # ""
                THEN GroupTitlePopup_setTitleForGroup(p, gs[c]) ELSE p,
     shows  |-> gs[c].title # ""]

\* a wrong hoverLeaveEvent: the popup stays
HoverLeave_NoHide(gs, p, c) ==
    [groups |-> [gs EXCEPT ![c] = OpenedGroupBegin_setHighlight(gs[c], FALSE)],
     popup  |-> p]

\* GroupCornerControl.hoverLeaveEvent
HoverLeave(gs, p, c) ==
    [groups |-> [gs EXCEPT ![c] = OpenedGroupBegin_setHighlight(gs[c], FALSE)],
     popup  |-> GroupTitlePopup_hide(p)]

Top == stack[Len(stack)]
SetTopPc(pc) == [stack EXCEPT ![Len(stack)].pc = pc]

\* the event loop is idle, or a show is inside processEvents
InEventLoop ==
    IF stack = <<>> THEN TRUE ELSE Top.pc \in {"events", "resizeEvents"}

GroupSpace ==
    {[title |-> ti, highlight |-> FALSE,
      control |-> GroupCornerControl_moveTo(DefaultSettings,
                      GroupCornerControl_init(DefaultSettings), b[1], b[2])] :
        ti \in Titles, b \in GroupBases}

DesktopSpace ==
    [screenHeight : ScreenHeights, scroll : Scrolls, origin : Origins]

InitHover ==
    /\ settings = DefaultSettings
    /\ item = NoItem
    /\ phase = "none"
    /\ scene = <<>>
    /\ painter = <<>>
    /\ result = <<0, 0>>
    /\ groups \in [Ctls -> GroupSpace]
    /\ popup = NoPopup
    /\ hovered = 0
    /\ stack = <<>>
    /\ desktop \in DesktopSpace

\* the mouse enters control c: hoverEnterEvent runs up to show's first move
HoverEnterEvent(c) ==
    /\ hovered = 0
    /\ Len(stack) < MaxDepth
    /\ LET r == HoverEnter(groups, popup, c)
       IN  /\ groups' = r.groups
           /\ popup' = r.popup
           /\ stack' = IF r.shows
                       THEN Append(stack, [ctl |-> c, pc |-> "move"])
                       ELSE stack
    /\ hovered' = c
    /\ UNCHANGED desktop
    /\ UNCHANGED layoutVars

\* the mouse leaves control c: hoverLeaveEvent
HoverLeaveEvent(c) ==
    /\ hovered = c
    /\ LET r == HoverLeave(groups, popup, c)
       IN  /\ groups' = r.groups
           /\ popup' = r.popup
    /\ hovered' = 0
    /\ UNCHANGED <<stack, desktop>>
    /\ UNCHANGED layoutVars

ShowMove ==
    /\ stack # <<>> /\ Top.pc = "move"
    /\ popup' = GroupTitlePopup_show_move(popup, desktop.screenHeight)
    /\ stack' = SetTopPc("show")
    /\ UNCHANGED <<groups, hovered, desktop>>
    /\ UNCHANGED layoutVars

ShowVisible ==
    /\ stack # <<>> /\ Top.pc = "show"
    /\ \E h \in PopupHeights :
           popup' = GroupTitlePopup_show_visible(popup, h)
    /\ stack' = SetTopPc("events")
    /\ UNCHANGED <<groups, hovered, desktop>>
    /\ UNCHANGED layoutVars

\* show's QApplication.processEvents() returns
ShowEventsDone ==
    /\ stack # <<>> /\ Top.pc = "events"
    /\ stack' = SetTopPc("resize")
    /\ UNCHANGED <<groups, popup, hovered, desktop>>
    /\ UNCHANGED layoutVars

Resize ==
    /\ stack # <<>> /\ Top.pc = "resize"
    /\ popup' = GroupTitlePopup_resize(popup, desktop,
                                       groups[Top.ctl].control)
    /\ stack' = SetTopPc("resizeEvents")
    /\ UNCHANGED <<groups, hovered, desktop>>
    /\ UNCHANGED layoutVars

\* resize's QApplication.processEvents() returns, and show with it
ResizeEventsDone ==
    /\ stack # <<>> /\ Top.pc = "resizeEvents"
    /\ stack' = SubSeq(stack, 1, Len(stack) - 1)
    /\ UNCHANGED <<groups, popup, hovered, desktop>>
    /\ UNCHANGED layoutVars

\* hover events delivered by the event loop or by a processEvents call
Enter == \E c \in Ctls : InEventLoop /\ HoverEnterEvent(c)
Leave == \E c \in Ctls : InEventLoop /\ HoverLeaveEvent(c)

\* hover events delivered by the event loop only: no event is pending when
\* processEvents is called
EnterIdle == \E c \in Ctls : stack = <<>> /\ HoverEnterEvent(c)
LeaveIdle == \E c \in Ctls : stack = <<>> /\ HoverLeaveEvent(c)

NextHover ==
    \/ Enter
    \/ Leave
    \/ ShowMove
    \/ ShowVisible
    \/ ShowEventsDone
    \/ Resize
    \/ ResizeEventsDone

SpecHover == InitHover /\ [][NextHover]_vars

NextShow ==
    \/ EnterIdle
    \/ LeaveIdle
    \/ ShowMove
    \/ ShowVisible
    \/ ShowEventsDone
    \/ Resize
    \/ ResizeEventsDone

SpecShow == InitHover /\ [][NextShow]_vars

(***************************************************************************)
(* Properties of the hover specifications                                  *)
(***************************************************************************)

\* no hoverEnterEvent is between its start and the QFrame.show of its popup
Settled == IF stack = <<>> THEN TRUE ELSE Top.pc \notin {"move", "show"}

\* what holds of the popup and the highlights in every state
C4_State ==
    /\ \A c \in Ctls : groups[c].highlight <=> (hovered = c)
    /\ Cardinality({c \in Ctls : groups[c].highlight}) <= 1
    /\ Settled =>
         /\ popup.visible <=> (hovered # 0 /\ groups[hovered].title # "")
         /\ popup.visible => popup.title = groups[hovered].title

\* what one hover event changes
C4_Event ==
    /\ (hovered = 0 /\ hovered' # 0) =>
         /\ groups'[hovered'].highlight
         /\ IF groups[hovered'].title # ""
            THEN /\ popup'.title = groups[hovered'].title
                 /\ Len(stack') = Len(stack) + 1
                 /\ stack'[Len(stack')].ctl = hovered'
            ELSE popup' = popup /\ stack' = stack
    /\ (hovered # 0 /\ hovered' = 0) =>
         /\ ~groups'[hovered].highlight
         /\ ~popup'.visible

\* C4: hoverEnterEvent highlights the control's group and, iff the group's
\* title is not empty, sets the popup's title to it and shows the popup;
\* hoverLeaveEvent removes the highlight and hides the popup.  So the popup
\* is visible exactly while a control of a titled group is hovered, it
\* shows that group's title, and at most one group is highlighted.
C4_HoverPopup == []C4_State /\ [][C4_Event]_vars

\* the second control is hovered and titled while the show of the first
\* one is still inside processEvents
C4_Witness ==
    /\ Len(stack) = 1 /\ Top.ctl = 1 /\ Top.pc = "events"
    /\ hovered = 2
    /\ popup.visible
    /\ groups[2].highlight
    /\ popup.title = "Loop" /\ groups[1].title = "Setup"

PopupPos == <<popup.x, popup.y>>
OffScreenPos == <<0, desktop.screenHeight + 128>>
PopupOnScreen ==
    popup.x >= 0 /\ popup.y >= 0 /\ popup.y < desktop.screenHeight

\* the popup is on the control's mapped top-left, its bottom 2 pixels above
AboveControl(c) ==
    LET g == GlobalTopLeft(desktop, groups[c].control)
    IN  popup.x = g[1] /\ popup.y + popup.height = g[2] - 2

\* C5: show moves the popup to (0, screenHeight + 128), then makes it
\* visible, then processes events, then moves it to
\* (gx, gy - popupHeight - 2).  With no event delivered inside show, the
\* popup ends with its bottom edge 2 pixels above the control's top-left and
\* is visible on the screen at that final position only.
C5_ShowSteps ==
    /\ stack # <<>> =>
         /\ Top.pc = "show" => ~popup.visible /\ PopupPos = OffScreenPos
         /\ Top.pc \in {"events", "resize"} =>
              popup.visible /\ PopupPos = OffScreenPos
         /\ Top.pc = "resizeEvents" =>
              popup.visible /\ AboveControl(Top.ctl)
    /\ (stack = <<>> /\ popup.visible) =>
         hovered # 0 /\ AboveControl(hovered)
    /\ (popup.visible /\ PopupOnScreen) =>
         hovered # 0 /\ AboveControl(hovered)

\* show has returned for the second control after the popup was shown and
\* hidden for the first one somewhere else on the screen
C5_Witness ==
    /\ stack = <<>>
    /\ hovered = 2
    /\ popup.visible /\ PopupOnScreen
    /\ groups[1].title # ""
    /\ groups[1].control # groups[2].control
    /\ ~groups[1].highlight

====
